---- MODULE Spec2Model ----
(***************************************************************************)
(* Model of the analysis notebook                                          *)
(* DutchCryptoDad_Freqtrade_analysis_sheet_Jupyter_Notebook.py.            *)
(*                                                                         *)
(* Two cells of the notebook hold logic of their own:                      *)
(*   In[5]   the project root search (lines 38-48)                         *)
(*   In[20]  the equity line computation (lines 262-278)                   *)
(* The names bound by a cell live in the kernel's namespace and survive    *)
(* from one execution of the cell to the next; they are the VARIABLES.     *)
(* Every other cell only calls freqtrade, pandas or plotly.                *)
(***************************************************************************)
EXTENDS Integers, Sequences, FiniteSets, TLC

VARIABLES
    \* ---- In[20], equity line ----
    daily_profit,   \* strategy_stats['daily_profit'] as loaded at line 262-263
    dates,          \* list built at lines 265-269
    profits,        \* list built at lines 266-269
    equity,         \* running total, lines 271-275
    equity_daily,   \* list appended to at line 274
    df,             \* frame bound at line 278 by the latest execution of the
                    \* cell, or Stale when that execution did not reach line 278
                    \* (df then still names an older frame, which In[20] never reads)
    status,         \* outcome of the latest execution: "none", "ok", "error"
    rerun,          \* history: the latest execution read the same series as
                    \* the execution before it
    \* ---- In[5], project root search ----
    start,          \* depth of the directory the kernel was started in
    license,        \* depths (on the path root..target) that hold a LICENSE file
    target_exists,  \* whether start/somedir/freqtrade exists
    cwd,            \* depth of the current working directory
    i,              \* loop counter, line 39
    project_root,   \* line 38 / line 47
    chdirs,         \* number of os.chdir calls made so far (history)
    pc              \* position in In[5]: "try", "loop", "done"

equity_vars == <<daily_profit, dates, profits, equity, equity_daily, df, status, rerun>>
root_vars   == <<start, license, target_exists, cwd, i, project_root, chdirs, pc>>
vars        == <<daily_profit, dates, profits, equity, equity_daily, df, status, rerun,
                 start, license, target_exists, cwd, i, project_root, chdirs, pc>>

(***************************************************************************)
(* Bounds of the model.                                                    *)
(***************************************************************************)
MaxLen   == 3    \* longest daily-profit series
MaxDate  == 3    \* days are numbered 1..MaxDate
MaxDepth == 6    \* deepest start directory (depth 0 is the filesystem root)

(***************************************************************************)
(* Values found in a daily_profit row [date, profit_abs] of the backtest   *)
(* statistics (a JSON document).  A profit is a JSON number or, in a       *)
(* damaged file, null.  Numbers are whole units, which float carries       *)
(* exactly, so float addition is integer addition here.                    *)
(***************************************************************************)
Number(v) == [type |-> "number", val |-> v]
Null      == [type |-> "null", val |-> 0]

ProfitValues == {Number(10), Number(0 - 5), Null}
Days         == 1..MaxDate

\* float(x), line 275: the value of a number; TypeError for None.
FloatRaises(x) == x.type # "number"
Float(x)       == x.val

\* Every series the loader can hand over: at most one row per day, in any
\* order of days, at most MaxLen rows.
DailyProfitSeries ==
    { s \in UNION { [1..n -> Days \X ProfitValues] : n \in 0..MaxLen } :
        \A a, b \in DOMAIN s : a # b => s[a][1] # s[b][1] }

\* df before the cell has built a frame in its latest execution.
Stale == <<[dates |-> 0, equity_daily |-> 0]>>

(***************************************************************************)
(* In[20], lines 265-269: split the rows into dates and profits.           *)
(***************************************************************************)
CollectDates(rows)   == [k \in 1..Len(rows) |-> rows[k][1]]
CollectProfits(rows) == [k \in 1..Len(rows) |-> rows[k][2]]

(***************************************************************************)
(* In[20], lines 273-275: the accumulation loop from position k on, with   *)
(* the running total eq and the list acc built so far.  The loop appends   *)
(* first and converts second; a conversion that raises ends the loop and   *)
(* the cell with the state reached.                                        *)
(***************************************************************************)
\* Variant: the day's profit is added before the total is appended.
RECURSIVE AccumulateLate(_, _, _, _)
AccumulateLate(ps, k, eq, acc) ==
    IF k > Len(ps) THEN [equity |-> eq, equity_daily |-> acc, raised |-> FALSE]
    ELSE IF FloatRaises(ps[k])
         THEN [equity |-> eq, equity_daily |-> acc, raised |-> TRUE]
         ELSE AccumulateLate(ps, k + 1, eq + Float(ps[k]),
                             Append(acc, eq + Float(ps[k])))

\* Variant: the profit is converted before the total is appended.
RECURSIVE AccumulateConvertFirst(_, _, _, _)
AccumulateConvertFirst(ps, k, eq, acc) ==
    IF k > Len(ps) THEN [equity |-> eq, equity_daily |-> acc, raised |-> FALSE]
    ELSE IF FloatRaises(ps[k])
         THEN [equity |-> eq, equity_daily |-> acc, raised |-> TRUE]
         ELSE AccumulateConvertFirst(ps, k + 1, eq + Float(ps[k]), Append(acc, eq))

\* The loop as written.
RECURSIVE Accumulate(_, _, _, _)
Accumulate(ps, k, eq, acc) ==
    IF k > Len(ps) THEN [equity |-> eq, equity_daily |-> acc, raised |-> FALSE]
    ELSE IF FloatRaises(ps[k])
         THEN [equity |-> eq, equity_daily |-> Append(acc, eq), raised |-> TRUE]
         ELSE Accumulate(ps, k + 1, eq + Float(ps[k]), Append(acc, eq))

\* pd.DataFrame({'dates': dates, 'equity_daily': equity_daily}), line 278:
\* row k pairs dates[k] with equity_daily[k].
DataFrame(ds, eqs) ==
    [k \in 1..Len(ds) |-> [dates |-> ds[k], equity_daily |-> eqs[k]]]

(***************************************************************************)
(* One execution of In[20] on the series rows (lines 262-278).             *)
(***************************************************************************)
Cell20(rows, result) ==
    LET r  == result
        ds == CollectDates(rows)
    IN  /\ daily_profit' = rows
        /\ dates'        = ds
        /\ profits'      = CollectProfits(rows)
        /\ equity'       = r.equity
        /\ equity_daily' = r.equity_daily
        /\ df'           = IF r.raised THEN Stale ELSE DataFrame(ds, r.equity_daily)
        /\ status'       = IF r.raised THEN "error" ELSE "ok"
        /\ rerun'        = (status # "none" /\ rows = daily_profit)
        /\ UNCHANGED root_vars

Ascending(rows) == \A k \in 1..(Len(rows) - 1) : rows[k][1] < rows[k + 1][1]

\* Variant: line 271 missing, the total of the last execution is kept.
RunEquityCellKeepTotal(rows) ==
    Cell20(rows, Accumulate(CollectProfits(rows), 1, equity, <<>>))

\* Variant: the dates are checked for ascending order before accumulating.
RunEquityCellChecked(rows) ==
    IF Ascending(rows)
    THEN Cell20(rows, Accumulate(CollectProfits(rows), 1, 0, <<>>))
    ELSE Cell20(rows, [equity |-> 0, equity_daily |-> <<>>, raised |-> TRUE])

\* The cell as written.
RunEquityCell(rows) ==
    Cell20(rows, Accumulate(CollectProfits(rows), 1, 0, <<>>))

InitEquity ==
    /\ daily_profit = <<>>
    /\ dates = <<>>
    /\ profits = <<>>
    /\ equity = 0
    /\ equity_daily = <<>>
    /\ df = Stale
    /\ status = "none"
    /\ rerun = FALSE

(***************************************************************************)
(* In[5], lines 38-48: the project root search.                            *)
(*                                                                         *)
(* Directories are named by their depth on one path of the file system:    *)
(* depth 0 is the root directory, depth start the directory the kernel was *)
(* started in, depth start+1 its subdirectory somedir and depth start+2    *)
(* somedir/freqtrade, the configured project root of line 38.              *)
(***************************************************************************)
ConfiguredRoot == [kind |-> "configured", depth |-> 0]   \* "somedir/freqtrade"
CwdPath(d)     == [kind |-> "cwd", depth |-> d]          \* Path.cwd()

\* The attributes of module os that matter here; line 41 asks for "chdirdir".
OsAttributesFixed == {"chdir", "getcwd", "chdirdir"}
OsAttributes      == {"chdir", "getcwd"}

\* Path('LICENSE').is_file() in directory d
HasLicense(d) == d \in license

\* Path(Path.cwd(), '../'): the parent; the root is its own parent.
Parent(d) == IF d = 0 THEN 0 ELSE d - 1

\* The while condition of line 44.
\* (LoopGuardThree: the variant that gives up one level earlier)
LoopGuardThree == i < 3 /\ ~HasLicense(cwd)
LoopGuard      == i < 4 /\ ~HasLicense(cwd)

\* Lines 40-43.  The bare except of line 43 catches whatever the try block
\* raises: the AttributeError of a name os does not have, the
\* FileNotFoundError of a missing directory, the AssertionError of line 42.
TryBlock ==
    /\ pc = "try"
    /\ IF "chdirdir" \notin OsAttributes
       THEN /\ pc' = "loop"
            /\ UNCHANGED <<cwd, chdirs>>
       ELSE IF ~target_exists
       THEN /\ pc' = "loop"
            /\ UNCHANGED <<cwd, chdirs>>
       ELSE /\ cwd' = start + 2
            /\ chdirs' = chdirs + 1
            /\ pc' = IF (start + 2) \in license THEN "done" ELSE "loop"
    /\ UNCHANGED <<start, license, target_exists, i, project_root>>
    /\ UNCHANGED equity_vars

\* Lines 44-46: one iteration of the loop.
LoopStep ==
    /\ pc = "loop"
    /\ LoopGuard
    /\ cwd' = Parent(cwd)
    /\ chdirs' = chdirs + 1
    /\ i' = i + 1
    /\ UNCHANGED <<start, license, target_exists, project_root, pc>>
    /\ UNCHANGED equity_vars

\* Lines 44, 47-48: the loop ends, project_root becomes the working directory.
LoopExit ==
    /\ pc = "loop"
    /\ ~LoopGuard
    /\ project_root' = CwdPath(cwd)
    /\ pc' = "done"
    /\ UNCHANGED <<start, license, target_exists, cwd, i, chdirs>>
    /\ UNCHANGED equity_vars

\* The state of In[5] before it runs, in every file system of the model.
InitRoot ==
    /\ start \in 0..MaxDepth
    /\ target_exists \in BOOLEAN
    /\ license \in SUBSET (0..start \cup (IF target_exists THEN {start + 2} ELSE {}))
    /\ cwd = start
    /\ i = 0
    /\ project_root = ConfiguredRoot
    /\ chdirs = 0
    /\ pc = "try"

\* One file system, In[5] not run: the setting of the equity specification.
RootIdle ==
    /\ start = 0
    /\ target_exists = FALSE
    /\ license = {}
    /\ cwd = 0
    /\ i = 0
    /\ project_root = ConfiguredRoot
    /\ chdirs = 0
    /\ pc = "try"

(***************************************************************************)
(* Specifications.                                                         *)
(***************************************************************************)
\* In[20] executed again and again, each time on whatever series the
\* backtest statistics hold.
Init == InitEquity /\ RootIdle
Next == \E rows \in DailyProfitSeries : RunEquityCell(rows)
Spec == Init /\ [][Next]_vars

\* In[5] executed once; the interpreter runs the cell to its end.
InitSearch == InitEquity /\ InitRoot
NextSearch == TryBlock \/ LoopStep \/ LoopExit
SpecSearch == InitSearch /\ [][NextSearch]_vars /\ WF_vars(NextSearch)

(***************************************************************************)
(* Vocabulary of the properties.                                           *)
(***************************************************************************)
Row(d, v) == <<d, Number(v)>>
Point(d, e) == [dates |-> d, equity_daily |-> e]

AllNumbers(rows) == \A k \in 1..Len(rows) : ~FloatRaises(rows[k][2])

\* profit_abs of rows 1..n added up
RECURSIVE SumOfFirst(_, _)
SumOfFirst(rows, n) ==
    IF n = 0 THEN 0 ELSE SumOfFirst(rows, n - 1) + rows[n][2].val

\* The frame is the whole curve of rows: one point per row, in the order of
\* the rows, each with the row's date and the profits of the rows before it.
WholeCurve(frame, rows) ==
    /\ Len(frame) = Len(rows)
    /\ \A k \in 1..Len(rows) :
          /\ frame[k].dates = rows[k][1]
          /\ frame[k].equity_daily = SumOfFirst(rows, k - 1)

\* The position of the first profit that float() refuses
FirstBad(rows) ==
    CHOOSE k \in 1..Len(rows) :
        /\ FloatRaises(rows[k][2])
        /\ \A j \in 1..(k - 1) : ~FloatRaises(rows[j][2])

\* a and b have the same dates and the same profits except in the last row
SameButLastProfit(a, b) ==
    /\ Len(a) = Len(b)
    /\ Len(a) > 0
    /\ \A k \in 1..Len(a) : a[k][1] = b[k][1]
    /\ \A k \in 1..(Len(a) - 1) : a[k][2] = b[k][2]

(***************************************************************************)
(* C1.  An execution on a series of n numeric daily profits yields n       *)
(* points; point k carries the date of row k, and its value is the sum of  *)
(* the profits of the rows before row k (0 for the first row).             *)
(***************************************************************************)
C1_EquityIsSumOfEarlierDays ==
    (status # "none" /\ AllNumbers(daily_profit)) =>
        /\ status = "ok"
        /\ WholeCurve(df, daily_profit)

\* profits [10, -5, 10] on days 1, 3, 2 of which day 2 comes last
C1_Witness ==
    /\ status = "ok"
    /\ daily_profit = <<Row(1, 10), Row(3, 0 - 5), Row(2, 10)>>
    /\ df = <<Point(1, 0), Point(3, 10), Point(2, 5)>>

(***************************************************************************)
(* C2 as stated.  An execution on a series that is not ascending by date   *)
(* fails and builds no frame.                                              *)
(***************************************************************************)
C2_UnorderedRejected ==
    (status # "none" /\ ~Ascending(daily_profit)) =>
        (status = "error" /\ df = Stale)

(***************************************************************************)
(* C2, amended.  The cell does not look at the order of the dates: an      *)
(* execution on a series that is not ascending by date, all of whose       *)
(* profits are numbers, raises nothing and yields the cumulative curve     *)
(* over the rows in the order they came in.                                *)
(***************************************************************************)
C2_UnorderedAccumulated ==
    (status # "none" /\ ~Ascending(daily_profit) /\ AllNumbers(daily_profit)) =>
        /\ status = "ok"
        /\ WholeCurve(df, daily_profit)

C2_Witness ==
    /\ status = "ok"
    /\ daily_profit = <<Row(2, 10), Row(1, 0 - 5)>>
    /\ df = <<Point(2, 0), Point(1, 10)>>

(***************************************************************************)
(* C3 as stated.  An execution that failed has appended nothing to         *)
(* equity_daily.                                                           *)
(***************************************************************************)
C3_FailsBeforeAppending ==
    status = "error" => equity_daily = <<>>

(***************************************************************************)
(* C3, amended.  An execution either goes through the whole series and     *)
(* builds the frame of the complete curve, or it fails at the first profit *)
(* float() refuses, row k, and builds no frame; equity_daily then holds    *)
(* the k values appended up to and including row k's, and equity the sum   *)
(* of the profits before row k.                                            *)
(***************************************************************************)
C3_FailureLeavesPrefix ==
    /\ status = "ok" =>
          /\ AllNumbers(daily_profit)
          /\ Len(equity_daily) = Len(daily_profit)
          /\ WholeCurve(df, daily_profit)
    /\ status = "error" =>
          /\ ~AllNumbers(daily_profit)
          /\ df = Stale
          /\ Len(equity_daily) = FirstBad(daily_profit)
          /\ \A k \in 1..FirstBad(daily_profit) :
                equity_daily[k] = SumOfFirst(daily_profit, k - 1)
          /\ equity = SumOfFirst(daily_profit, FirstBad(daily_profit) - 1)

\* the third row's profit is null: two sums and the third day's were appended
C3_Witness ==
    /\ status = "error"
    /\ daily_profit = <<Row(1, 10), Row(2, 0 - 5), <<3, Null>>>>
    /\ equity_daily = <<0, 10, 5>>
    /\ df = Stale

(***************************************************************************)
(* C5.  An execution on the empty series yields the empty frame and no     *)
(* error; an execution on a single row (date, p), p a number, yields the   *)
(* one point (date, 0).                                                    *)
(***************************************************************************)
C5_EmptyAndSingle ==
    /\ (status # "none" /\ Len(daily_profit) = 0) =>
          (status = "ok" /\ df = <<>> /\ equity_daily = <<>>)
    /\ (status # "none" /\ Len(daily_profit) = 1 /\ AllNumbers(daily_profit)) =>
          (status = "ok" /\ df = <<Point(daily_profit[1][1], 0)>>)

C5_Witness ==
    /\ status = "ok"
    /\ daily_profit = <<Row(2, 0 - 5)>>
    /\ df = <<Point(2, 0)>>
    /\ equity = 0 - 5

(***************************************************************************)
(* C8.  An execution that reads the same series as the execution before it *)
(* leaves the frame, the lists, the running total and the outcome exactly  *)
(* as that execution left them, whatever was executed earlier.             *)
(***************************************************************************)
C8_RerunIdentical ==
    [][(status # "none" /\ daily_profit' = daily_profit) =>
          /\ df' = df
          /\ equity_daily' = equity_daily
          /\ equity' = equity
          /\ dates' = dates
          /\ profits' = profits
          /\ status' = status]_vars

\* a three-row series with a non-zero total, executed twice in a row
C8_Witness ==
    /\ rerun
    /\ status = "ok"
    /\ Len(daily_profit) = 3
    /\ equity = 15
    /\ df[3].equity_daily = 5

(***************************************************************************)
(* C9.  Two successive executions on non-empty series with the same dates  *)
(* that differ in nothing but the profit of the last row build the same    *)
(* frame: the last day's profit is in no value of the curve.               *)
(***************************************************************************)
C9_LastDayNotShown ==
    [][(status = "ok" /\ status' = "ok"
          /\ SameButLastProfit(daily_profit, daily_profit')) => df' = df]_vars

\* the curve ends at 10 while the running total has reached 20
C9_Witness ==
    /\ status = "ok"
    /\ daily_profit = <<Row(1, 10), Row(2, 10)>>
    /\ df = <<Point(1, 0), Point(2, 10)>>
    /\ equity = 20

(***************************************************************************)
(* C10.  The search makes at most 4 os.chdir calls, each to the parent of  *)
(* the working directory, never into the configured project root, and is   *)
(* never stuck before its end, which it reaches.  At the end project_root  *)
(* is the working directory, and when the start directory or one of its 4  *)
(* nearest ancestors holds a LICENSE file, the working directory is the    *)
(* nearest of them, reached by as many chdir calls as it lies above the    *)
(* start directory.                                                        *)
(***************************************************************************)
NearLicenses == {d \in license : d <= start /\ d >= start - 4}
Nearest      == CHOOSE d \in NearLicenses : \A e \in NearLicenses : e <= d

C10_SearchInv ==
    /\ chdirs <= 4
    /\ chdirs = i
    /\ cwd = (IF start - chdirs < 0 THEN 0 ELSE start - chdirs)
    /\ pc # "done" => ENABLED NextSearch
    /\ pc # "done" => project_root = ConfiguredRoot
    /\ pc = "done" =>
          /\ project_root = CwdPath(cwd)
          /\ NearLicenses # {} =>
                /\ cwd = Nearest
                /\ HasLicense(cwd)
                /\ chdirs = start - Nearest

C10_RootSearch == []C10_SearchInv /\ <>(pc = "done")

\* four levels up, the last of them holding the LICENSE
C10_Witness ==
    /\ pc = "done"
    /\ start = 6
    /\ cwd = 2
    /\ chdirs = 4
    /\ HasLicense(2)
    /\ project_root = CwdPath(2)

====
